---- MODULE Spec2Model ----
(***************************************************************************)
(* Session and reliability layer of the workout bot: encrypted token       *)
(* persistence (bot/utils/encryption.py, bot/utils/db_utils.py), the       *)
(* expiry-aware refresh of the Gym-Stat token pair                          *)
(* (bot/utils/api_session.py) and the retry loop of the GigaChat gateway   *)
(* (bot/ai_assistant/ai_api.py).                                            *)
(*                                                                         *)
(* Python values are represented as follows.  A str or bytes value is a    *)
(* sequence of naturals (one per character or byte); None is the           *)
(* one-element sequence <<-1>>, which is no string; an exception leaving a *)
(* function is the marker <<-2>>.  A point in time is a number of seconds. *)
(***************************************************************************)
EXTENDS Integers, Sequences, FiniteSets, TLC

(***************************************************************************)
(* Bounds of the model.                                                    *)
(***************************************************************************)
MaxChar == 3
MaxLen == 3
MaxIV == 0
MaxTicks == 3
MaxRetries == 3
MaxCred == 4

None == << -1 >>
Raised == << -2 >>
NullTime == 0 - 1

\* Python truthiness of an Optional[str]: None and "" are falsy.
Truthy(x) == x # None /\ x # << >>

(***************************************************************************)
(* Characters.  0 .. MaxChar-2 are ASCII characters (one UTF-8 byte each), *)
(* MaxChar-1 is a non-ASCII character (a lead byte and a continuation      *)
(* byte), MaxChar is a lone surrogate, which str.encode() refuses.         *)
(***************************************************************************)
Chars == 0 .. MaxChar
NonAscii == MaxChar - 1
Surrogate == MaxChar
LeadByte == MaxChar - 1
ContByte == MaxChar
ByteMod == MaxChar + 1

RECURSIVE StringsUpTo(_)
StringsUpTo(n) ==
    IF n = 0 THEN { << >> }
    ELSE LET shorter == StringsUpTo(n - 1)
         IN  shorter \cup { Append(s, c) : s \in { t \in shorter : Len(t) = n - 1 }, c \in Chars }

\* str.encode(): UTF-8; raises UnicodeEncodeError on a lone surrogate.
RECURSIVE str_encode(_)
str_encode(s) ==
    IF s = << >> THEN << >>
    ELSE IF Head(s) = Surrogate THEN Raised
    ELSE LET rest == str_encode(Tail(s))
         IN  IF rest = Raised THEN Raised
             ELSE IF Head(s) = NonAscii THEN << LeadByte, ContByte >> \o rest
             ELSE << Head(s) >> \o rest

\* bytes.decode(): UTF-8; raises UnicodeDecodeError on a malformed sequence.
RECURSIVE bytes_decode(_)
bytes_decode(b) ==
    IF b = << >> THEN << >>
    ELSE IF Head(b) = LeadByte
         THEN IF Len(b) >= 2 /\ b[2] = ContByte
              THEN LET rest == bytes_decode(Tail(Tail(b)))
                   IN  IF rest = Raised THEN Raised ELSE << NonAscii >> \o rest
              ELSE Raised
    ELSE IF Head(b) = ContByte THEN Raised
    ELSE LET rest == bytes_decode(Tail(b))
         IN  IF rest = Raised THEN Raised ELSE << Head(b) >> \o rest

(***************************************************************************)
(* Fernet(ENCRYPT_KEY).  A token is                                        *)
(*     version | iv | ciphertext bytes | mac                               *)
(* where the ciphertext is the plaintext shifted by key and iv, and the    *)
(* mac authenticates version, iv and ciphertext under the key.  The iv is  *)
(* drawn at random by encrypt, so it is an argument here.  The version     *)
(* byte lies outside the character range, as the 0x80 marker does.         *)
(***************************************************************************)
ENCRYPT_KEY == 2
FernetVersion == MaxChar + 1
IVs == 0 .. MaxIV

RECURSIVE SumSeq(_)
SumSeq(s) == IF s = << >> THEN 0 ELSE Head(s) + SumSeq(Tail(s))

fernet_mac(key, body) == (key + SumSeq(body) + Len(body)) % (ByteMod + 2)

fernet_encrypt(key, data, iv) ==
    LET ct   == [i \in 1 .. Len(data) |-> (data[i] + key + iv) % ByteMod]
        body == << FernetVersion, iv >> \o ct
    IN  Append(body, fernet_mac(key, body))

\* Raises InvalidToken (Raised) on a malformed or unauthenticated token.
fernet_decrypt(key, tok) ==
    IF Len(tok) < 3 THEN Raised
    ELSE LET body == SubSeq(tok, 1, Len(tok) - 1)
             iv   == tok[2]
         IN  IF tok[1] # FernetVersion \/ tok[Len(tok)] # fernet_mac(key, body)
             THEN Raised
             ELSE [i \in 1 .. Len(tok) - 3 |-> (tok[i + 2] - key - iv) % ByteMod]

\* encrypt_token: None for a falsy token, else the Fernet token as a str.
encrypt_token(token, iv) ==
    IF ~Truthy(token) THEN None
    ELSE LET data == str_encode(token)
         IN  IF data = Raised THEN Raised ELSE fernet_encrypt(ENCRYPT_KEY, data, iv)

\* Faulty variant: decrypt_token under another key.
decrypt_token_wrongshift(token_encrypted) ==
    IF ~Truthy(token_encrypted) THEN None
    ELSE LET data == fernet_decrypt(ENCRYPT_KEY + 1, token_encrypted)
         IN  IF data = Raised THEN None ELSE bytes_decode(data)

\* decrypt_token: None for a falsy or invalid token, else the plaintext.
decrypt_token(token_encrypted) ==
    IF ~Truthy(token_encrypted) THEN None
    ELSE LET data == fernet_decrypt(ENCRYPT_KEY, token_encrypted)
         IN  IF data = Raised THEN None ELSE bytes_decode(data)


(***************************************************************************)
(* The users table (bot/utils/db_utils.py).  A row carries the token       *)
(* record of one user; NULL is None for the two token columns and NullTime *)
(* for token_expires_at.  The table is a sequence of rows, so that a       *)
(* second row for one user is a state the model can tell apart.            *)
(* token_expires_at holds utcnow() + expires_in as an ISO-8601 text with   *)
(* microseconds, which datetime.fromisoformat reads back to the same       *)
(* instant; the model keeps the instant in seconds.                        *)
(***************************************************************************)
UserIds == {1}
Callers == {"t1", "t2"}
AccessTokens == { <<0>>, <<1>> }
RefreshTokens == { <<0, 0>>, <<1, 1>> }
Absent == 0 - 1
Lifetimes == {400}
RefreshMargin == 300
DefaultExpiresIn == 3600

VARIABLES users, ticks, call, last, cr, gw, ss, dp, ch

vars == << users, ticks, call, last, cr, gw, ss, dp, ch >>

\* datetime.utcnow(), in seconds: the clock advances in steps of 100 s.
utcnow(t) == t * 100

RowsOf(tbl, user_id) == { i \in DOMAIN tbl : tbl[i].user_id = user_id }

NewRow(user_id) ==
    [user_id |-> user_id, api_token_encrypted |-> None,
     refresh_token_encrypted |-> None, token_expires_at |-> NullTime]

NoTokens == [found |-> FALSE, access_enc |-> None, refresh_enc |-> None, expires_at |-> NullTime]

\* get_api_tokens: fetchone() of the user's row, None unless the access
\* token and the expiry are both set.
get_api_tokens(tbl, user_id) ==
    IF RowsOf(tbl, user_id) = {} THEN NoTokens
    ELSE LET row == tbl[CHOOSE i \in RowsOf(tbl, user_id) : \A j \in RowsOf(tbl, user_id) : i <= j]
         IN  IF Truthy(row.api_token_encrypted) /\ row.token_expires_at # NullTime
             THEN [found |-> TRUE, access_enc |-> row.api_token_encrypted,
                   refresh_enc |-> row.refresh_token_encrypted,
                   expires_at |-> row.token_expires_at]
             ELSE NoTokens

\* Faulty variant: save_api_tokens that leaves token_expires_at as it was.
save_api_tokens_keep_expiry(tbl, user_id, access_encrypted, refresh_encrypted, expires_in, t) ==
    [i \in DOMAIN tbl |->
        IF tbl[i].user_id = user_id
        THEN [tbl[i] EXCEPT !.api_token_encrypted = access_encrypted,
                            !.refresh_token_encrypted = refresh_encrypted]
        ELSE tbl[i]]

\* save_api_tokens: UPDATE users SET ... WHERE user_id = ?, with
\* expires_at = utcnow() + expires_in.
save_api_tokens(tbl, user_id, access_encrypted, refresh_encrypted, expires_in, t) ==
    [i \in DOMAIN tbl |->
        IF tbl[i].user_id = user_id
        THEN [tbl[i] EXCEPT !.api_token_encrypted = access_encrypted,
                            !.refresh_token_encrypted = refresh_encrypted,
                            !.token_expires_at = utcnow(t) + expires_in]
        ELSE tbl[i]]

\* Faulty variant: clear_api_tokens that leaves the refresh token.
clear_api_tokens_keep_refresh(tbl, user_id) ==
    [i \in DOMAIN tbl |->
        IF tbl[i].user_id = user_id
        THEN [tbl[i] EXCEPT !.api_token_encrypted = None, !.token_expires_at = NullTime]
        ELSE tbl[i]]

\* clear_api_tokens: UPDATE users SET the three columns to NULL.
clear_api_tokens(tbl, user_id) ==
    [i \in DOMAIN tbl |->
        IF tbl[i].user_id = user_id
        THEN [tbl[i] EXCEPT !.api_token_encrypted = None,
                            !.refresh_token_encrypted = None,
                            !.token_expires_at = NullTime]
        ELSE tbl[i]]


(***************************************************************************)
(* get_valid_access_token (bot/utils/api_session.py).  The coroutine has   *)
(* one suspension point, `await api_refresh(refresh)`: a call runs from    *)
(* its entry to that await (or to a return) in one step, and from the      *)
(* answer of the refresh endpoint to its return in a second step.  Calls   *)
(* of different tasks interleave at the await.                             *)
(***************************************************************************)
Pending == << -3 >>

IdleCall ==
    [pc |-> "idle", user_id |-> 0, refresh_enc |-> None, result |-> Pending, ncalls |-> 0]

NoResp == [status |-> 0, access_token |-> None, refresh_token |-> None, expires_in |-> Absent]

NoEvent == [op |-> "init", c |-> "-", user_id |-> 0, path |-> "-", resp |-> NoResp, before |-> << >>]

\* The answers of POST /api/users/refresh: a status and, for 200, the JSON
\* fields access_token, refresh_token and expires_in (each may be missing).
RefreshResponses ==
    [status : {200}, access_token : AccessTokens,
     refresh_token : {None} \cup RefreshTokens, expires_in : {Absent} \cup Lifetimes]
    \cup [status : {200}, access_token : {None, << >>}, refresh_token : {None},
          expires_in : {Absent}]
    \cup [status : {400, 401, 500}, access_token : {None}, refresh_token : {None},
          expires_in : {Absent}]

\* The 200 answers of POST /api/auth/login.
LoginResponses ==
    [status : {200}, access_token : AccessTokens,
     refresh_token : {None} \cup RefreshTokens, expires_in : {Absent} \cup Lifetimes]
    \cup [status : {200}, access_token : {None}, refresh_token : {None},
          expires_in : {Absent}]

\* Faulty variant: refresh only once the token has expired.
NearExpiry_at_expiry(t, expires_at) == utcnow(t) > expires_at

\* Line 46: datetime.utcnow() > expires_at - timedelta(seconds=300).
NearExpiry(t, expires_at) == utcnow(t) > expires_at - RefreshMargin

\* data.get("expires_in", 3600).
ExpiresIn(resp) == IF resp.expires_in = Absent THEN DefaultExpiresIn ELSE resp.expires_in

\* Faulty variant: the entry of get_valid_access_token without the expiry test.
BeginOutcome_refresh_fresh(tbl, user_id, t) ==
    LET tokens == get_api_tokens(tbl, user_id)
    IN  IF ~tokens.found
        THEN [path |-> "absent", clear |-> FALSE, send |-> FALSE, result |-> None]
        ELSE IF ~Truthy(tokens.refresh_enc)
        THEN [path |-> "no_refresh_token", clear |-> TRUE, send |-> FALSE, result |-> None]
        ELSE [path |-> "refresh", clear |-> FALSE, send |-> TRUE, result |-> Pending]

\* Lines 36-60 and 74-78: what a call does before its first suspension.
BeginOutcome(tbl, user_id, t) ==
    LET tokens == get_api_tokens(tbl, user_id)
    IN  IF ~tokens.found
        THEN [path |-> "absent", clear |-> FALSE, send |-> FALSE, result |-> None]
        ELSE IF ~Truthy(tokens.access_enc) \/ tokens.expires_at = NullTime
        THEN [path |-> "incomplete", clear |-> TRUE, send |-> FALSE, result |-> None]
        ELSE IF NearExpiry(t, tokens.expires_at)
        THEN IF ~Truthy(tokens.refresh_enc)
             THEN [path |-> "no_refresh_token", clear |-> TRUE, send |-> FALSE, result |-> None]
             ELSE IF ~Truthy(decrypt_token(tokens.refresh_enc))
             THEN [path |-> "bad_refresh_token", clear |-> TRUE, send |-> FALSE, result |-> None]
             ELSE [path |-> "refresh", clear |-> FALSE, send |-> TRUE, result |-> Pending]
        ELSE IF ~Truthy(decrypt_token(tokens.access_enc))
        THEN [path |-> "bad_access_token", clear |-> TRUE, send |-> FALSE, result |-> None]
        ELSE [path |-> "fresh", clear |-> FALSE, send |-> FALSE,
              result |-> decrypt_token(tokens.access_enc)]

get_valid_access_token_begin(c, user_id) ==
    LET out == BeginOutcome(users, user_id, ticks)
    IN  /\ call[c].pc # "awaiting"
        /\ users' = IF out.clear THEN clear_api_tokens(users, user_id) ELSE users
        /\ call' = [call EXCEPT ![c] =
                      [pc |-> IF out.send THEN "awaiting" ELSE "done",
                       user_id |-> user_id,
                       refresh_enc |-> IF out.send THEN get_api_tokens(users, user_id).refresh_enc
                                       ELSE None,
                       result |-> out.result,
                       ncalls |-> IF out.send THEN 1 ELSE 0]]
        /\ last' = [op |-> "begin", c |-> c, user_id |-> user_id, path |-> out.path,
                    resp |-> NoResp,
                    before |-> SelectSeq(users, LAMBDA r : r.user_id = user_id)]
        /\ UNCHANGED << ticks, cr, gw, ss, dp, ch >>

\* Faulty variant: a rejected refresh that leaves the record.
ResponseOutcome_keep_on_reject(tbl, user_id, refresh_enc, resp, t, iv) ==
    IF resp.status # 200
    THEN [path |-> "rejected", users |-> tbl, result |-> None]
    ELSE IF ~Truthy(resp.access_token)
    THEN [path |-> "no_access_token", users |-> clear_api_tokens(tbl, user_id), result |-> None]
    ELSE [path |-> "refreshed",
          users |-> save_api_tokens(tbl, user_id, encrypt_token(resp.access_token, iv),
                                    refresh_enc, ExpiresIn(resp), t),
          result |-> resp.access_token]

\* Lines 61-73: what a call does with the answer of the refresh endpoint.
ResponseOutcome(tbl, user_id, refresh_enc, resp, t, iv) ==
    IF resp.status # 200
    THEN [path |-> "rejected", users |-> clear_api_tokens(tbl, user_id), result |-> None]
    ELSE IF ~Truthy(resp.access_token)
    THEN [path |-> "no_access_token", users |-> clear_api_tokens(tbl, user_id), result |-> None]
    ELSE [path |-> "refreshed",
          users |-> save_api_tokens(tbl, user_id, encrypt_token(resp.access_token, iv),
                                    refresh_enc, ExpiresIn(resp), t),
          result |-> resp.access_token]

get_valid_access_token_response(c, resp, iv) ==
    LET out == ResponseOutcome(users, call[c].user_id, call[c].refresh_enc, resp, ticks, iv)
    IN  /\ call[c].pc = "awaiting"
        /\ users' = out.users
        /\ call' = [call EXCEPT ![c].pc = "done", ![c].result = out.result]
        /\ last' = [op |-> "response", c |-> c, user_id |-> call[c].user_id,
                    path |-> out.path, resp |-> resp, before |-> << >>]
        /\ UNCHANGED << ticks, cr, gw, ss, dp, ch >>

\* `await api_refresh(refresh)` raises (httpx timeout or connection error):
\* nothing in get_valid_access_token catches it.
get_valid_access_token_transport_error(c) ==
    /\ call[c].pc = "awaiting"
    /\ call' = [call EXCEPT ![c].pc = "done", ![c].result = Raised]
    /\ last' = [op |-> "transport_error", c |-> c, user_id |-> call[c].user_id,
                path |-> "raised", resp |-> NoResp, before |-> << >>]
    /\ UNCHANGED << users, ticks, cr, gw, ss, dp, ch >>

(***************************************************************************)
(* The handlers that write the users table.  The application runs with     *)
(* concurrent_updates(False), so a handler's reads and writes are one step.*)
(***************************************************************************)
\* start (bot/commands/start_command.py): INSERT a row unless one exists.
start_insert(user_id) ==
    /\ RowsOf(users, user_id) = {}
    /\ users' = Append(users, NewRow(user_id))

start(user_id) ==
    /\ start_insert(user_id)
    /\ last' = [NoEvent EXCEPT !.op = "start", !.user_id = user_id]
    /\ UNCHANGED << ticks, call, cr, gw, ss, dp, ch >>

\* delete_data: DELETE FROM users WHERE user_id = ?.
delete_data(user_id) ==
    /\ RowsOf(users, user_id) # {}
    /\ users' = SelectSeq(users, LAMBDA r : r.user_id # user_id)
    /\ last' = [NoEvent EXCEPT !.op = "delete", !.user_id = user_id]
    /\ UNCHANGED << ticks, call, cr, gw, ss, dp, ch >>

\* Faulty variant: login_password saving the tokens as issued.
LoginSave_plain(tbl, user_id, resp, t, iv, iv2) ==
    IF ~Truthy(resp.access_token) THEN tbl
    ELSE save_api_tokens(tbl, user_id, resp.access_token, resp.refresh_token,
                         ExpiresIn(resp), t)

\* login_password, lines 305-329: on a 200 answer that carries an access
\* token, save the encrypted pair.
LoginSave(tbl, user_id, resp, t, iv, iv2) ==
    IF ~Truthy(resp.access_token) THEN tbl
    ELSE save_api_tokens(tbl, user_id, encrypt_token(resp.access_token, iv),
                         IF Truthy(resp.refresh_token)
                         THEN encrypt_token(resp.refresh_token, iv2) ELSE None,
                         ExpiresIn(resp), t)

login_password(user_id, resp, iv, iv2) ==
    /\ users' = LoginSave(users, user_id, resp, ticks, iv, iv2)
    /\ last' = [NoEvent EXCEPT !.op = "login", !.user_id = user_id]
    /\ UNCHANGED << ticks, call, cr, gw, ss, dp, ch >>

Tick ==
    /\ ticks < MaxTicks
    /\ ticks' = ticks + 1
    /\ last' = [NoEvent EXCEPT !.op = "tick"]
    /\ UNCHANGED << users, call, cr, gw, ss, dp, ch >>

\* A user who logged in before the bot started and does nothing afterwards:
\* the row is in the table from the start and no operation names its user_id.
BystanderRow ==
    [user_id |-> 2, api_token_encrypted |-> encrypt_token(<<1>>, 0),
     refresh_token_encrypted |-> encrypt_token(<<1, 1>>, 0),
     token_expires_at |-> DefaultExpiresIn]

(***************************************************************************)
(* generate_gigachat_response (bot/ai_assistant/ai_api.py).  The coroutine *)
(* suspends at `await client.post(...)` and at `await asyncio.sleep(delay)`*)
(* only; get_gigachat_token is a blocking call made inside a step.         *)
(* GIGACHAT_AUTH_TOKEN is 0 for None and the number of the issued          *)
(* credential otherwise; the OAuth endpoint issues credentials 1, 2, ...   *)
(* and fails once MaxCred of them are issued.                              *)
(***************************************************************************)
Gateways == {"g1", "g2"}
SoloGateways == {"g1"}

\* What one `await client.post(...)` can produce: a status (200 with a
\* well-formed body, 401, 404, 429, 500, 503), a 200 whose body lacks
\* choices[0].message.content, or a transport exception.
Outcomes == {"200", "200_malformed", "401", "404", "429", "500", "503", "exception"}

\* One call of generate_gigachat_response.  Per attempt i the record keeps
\* the credential of the Authorization header (sent[i]), the answer
\* (hist[i]), what get_gigachat_token did after the answer (acq[i]) and
\* the number of asyncio.sleep calls made before the next attempt (naps[i]).
\* uuid.uuid4() gives a value no other uuid4() gives: the values made on
\* behalf of one call are named 1, 2, ... in the order they are made (uuids
\* counts them).  rquid is headers['RqUID'], rq[i] the RqUID attempt i was
\* posted with, orq the RqUIDs of the OAuth exchanges, in order.
GatewayCallIdle ==
    [pc |-> "idle", retries |-> 0, attempt |-> 0, header |-> 0, calls |-> 0,
     sleeps |-> 0, oauths |-> 0, hist |-> << >>, sent |-> << >>,
     acq |-> << >>, naps |-> << >>, result |-> "pending",
     uuids |-> 0, rquid |-> 0, rq |-> << >>, orq |-> << >>]

\* GIGACHAT_AUTH_TOKEN (token), the OAuth endpoint's counter (issued), the
\* credentials that were answered 401 (revoked), and for every successful
\* exchange made after a 401 the credential that 401 was about (reacq).
GatewayIdle ==
    [token |-> 0, issued |-> 0, revoked |-> {}, reacq |-> << >>,
     g |-> [x \in Gateways |-> GatewayCallIdle]]

\* get_gigachat_token: the OAuth exchange.  ok = FALSE is any failure
\* (a status other than 200, a transport error): the function raises.
get_gigachat_token(g0, ok) ==
    IF ok /\ g0.issued < MaxCred
    THEN [raised |-> FALSE, token |-> g0.issued + 1, issued |-> g0.issued + 1]
    ELSE [raised |-> TRUE, token |-> g0.token, issued |-> g0.issued]

\* Line 57: get_gigachat_token puts a new uuid4() in the RqUID header of the
\* exchange it makes for call st.
OAuthRqUID(st) ==
    [st EXCEPT !.oauths = st.oauths + 1, !.uuids = st.uuids + 1,
               !.orq = Append(st.orq, st.uuids + 1)]

\* Lines 139 and 151: headers is built twice, each time with a new uuid4();
\* the second dict is the one the loop posts.
BuildHeaders(st) == [st EXCEPT !.uuids = st.uuids + 2, !.rquid = st.uuids + 2]

\* Faulty variant: a loop that runs one attempt too many.
MoreAttempts_one_extra(attempt, retries) == attempt + 1 <= retries

\* for attempt in range(retries): is there an iteration after this one?
MoreAttempts(attempt, retries) == attempt + 1 < retries

\* Lines 163-179 of the next loop iteration, or line 219 after the last.
\* The attempt is posted with the headers dict as it is now.
Continue(st) ==
    IF MoreAttempts(st.attempt, st.retries)
    THEN [st EXCEPT !.pc = "posting", !.attempt = st.attempt + 1,
                    !.calls = st.calls + 1, !.sent = Append(st.sent, st.header),
                    !.rq = Append(st.rq, st.rquid)]
    ELSE [st EXCEPT !.pc = "done", !.result = "exhausted"]

\* Faulty variant: the except branch gives up on every attempt.
OnException_give_up(st) == [st EXCEPT !.pc = "done", !.result = "exception_text"]

\* Lines 214-218: except Exception.
OnException(st) ==
    IF st.attempt = st.retries - 1
    THEN [st EXCEPT !.pc = "done", !.result = "exception_text"]
    ELSE [st EXCEPT !.pc = "sleeping", !.sleeps = st.sleeps + 1]

\* Lines 192-207: status 500.
OnStatus500(st) ==
    IF st.attempt = st.retries - 1
    THEN [st EXCEPT !.pc = "done", !.result = "server_error"]
    ELSE [st EXCEPT !.pc = "sleeping", !.sleeps = st.sleeps + 1]

\* Faulty variant: every status that is not 200 or 401 is retried.
OnOtherStatus_retry(st) == OnStatus500(st)

\* Lines 208-213: any status other than 200, 401 and 500.
OnOtherStatus(st) == [st EXCEPT !.pc = "done", !.result = "status_error"]

\* Faulty variant: a 401 on the last attempt ends like a 500.
On401Reacquired_final(st, token) ==
    IF st.attempt = st.retries - 1
    THEN [st EXCEPT !.pc = "done", !.result = "server_error"]
    ELSE Continue([st EXCEPT !.header = token])

\* Lines 189-191 after get_gigachat_token returned: the Authorization
\* header takes the new credential and the loop continues.
On401Reacquired(st, token) == Continue([st EXCEPT !.header = token])

\* Lines 185-218: the answer to one attempt.  Gives the call's next state
\* and the process-wide state.
HandleOutcome(g0, st0, outcome, oauth_ok) ==
    LET st == [st0 EXCEPT !.hist = Append(st0.hist, outcome)]
        t == get_gigachat_token(g0, oauth_ok)
        ended(s, a) ==
            [s EXCEPT !.acq = Append(s.acq, a),
                      !.naps = Append(s.naps, IF s.pc = "sleeping" THEN 1 ELSE 0)]
        keep(s) == [g0 EXCEPT !.g = << >>] @@ [call |-> ended(s, "none")]
    IN  CASE outcome = "200" -> keep([st EXCEPT !.pc = "done", !.result = "payload"])
          [] outcome = "401" ->
                IF t.raised
                THEN [g0 EXCEPT !.g = << >>, !.revoked = g0.revoked \cup {st.header}]
                     @@ [call |-> ended(OnException(OAuthRqUID(st)),
                                        "failed")]
                ELSE [g0 EXCEPT !.g = << >>, !.token = t.token, !.issued = t.issued,
                                !.revoked = g0.revoked \cup {st.header},
                                !.reacq = Append(g0.reacq, st.header)]
                     @@ [call |-> ended(On401Reacquired(OAuthRqUID(st), t.token), "ok")]
          [] outcome = "500" -> keep(OnStatus500(st))
          [] outcome \in {"404", "429", "503"} -> keep(OnOtherStatus(st))
          [] OTHER -> keep(OnException(st))

\* Lines 132-179: entry of the call up to its first suspension.
generate_gigachat_response_call(g, retries, oauth_ok) ==
    LET t == IF gw.token = 0 THEN get_gigachat_token(gw, oauth_ok)
             ELSE [raised |-> FALSE, token |-> gw.token, issued |-> gw.issued]
        st0 == [GatewayCallIdle EXCEPT !.retries = retries, !.header = t.token]
        st1 == IF gw.token = 0 THEN OAuthRqUID(st0) ELSE st0
        st == BuildHeaders(st1)
    IN  /\ gw.g[g].pc \in {"idle", "done"}
        /\ gw' = [gw EXCEPT !.token = t.token, !.issued = t.issued,
                            !.g[g] =
                               IF t.raised THEN [st1 EXCEPT !.pc = "done", !.result = "raised"]
                               ELSE IF retries = 0
                                    THEN [st EXCEPT !.pc = "done", !.result = "exhausted"]
                                    ELSE [st EXCEPT !.pc = "posting", !.calls = 1,
                                                    !.sent = << t.token >>,
                                                    !.rq = << st.rquid >>]]
        /\ UNCHANGED << users, ticks, call, last, cr, ss, dp, ch >>

generate_gigachat_response_answer(g, outcome, oauth_ok) ==
    LET out == HandleOutcome(gw, gw.g[g], outcome, oauth_ok)
    IN  /\ gw.g[g].pc = "posting"
        /\ gw' = [gw EXCEPT !.token = out.token, !.issued = out.issued,
                            !.revoked = out.revoked, !.reacq = out.reacq,
                            !.g[g] = out.call]
        /\ UNCHANGED << users, ticks, call, last, cr, ss, dp, ch >>

\* asyncio.sleep(delay) returns: the loop goes on to the next attempt.
generate_gigachat_response_wake(g) ==
    /\ gw.g[g].pc = "sleeping"
    /\ gw' = [gw EXCEPT !.g[g] = Continue(gw.g[g])]
    /\ UNCHANGED << users, ticks, call, last, cr, ss, dp, ch >>

(***************************************************************************)
(* The AI consultation of one user: the handlers of                        *)
(* bot/ai_assistant/ai_handler.py behind the ConversationHandler of        *)
(* bot/main.py.  Updates are processed one at a time                       *)
(* (concurrent_updates(False)), so one update, with its handler and the    *)
(* error handler that follows a raising handler, is one step.              *)
(* conv is the ConversationHandler's state for the (chat, user) key, timer *)
(* says whether its conversation_timeout job is scheduled, user_data is    *)
(* context.user_data.  A key that is not in the dict is "absent";          *)
(* ai_history is {} when the key is absent and {h} when it holds list h.   *)
(* log lists the updates processed so far and before is the session as it  *)
(* was when the last of them arrived.  settings_calls counts the calls of  *)
(* get_user_settings and settings_before is that count when the last       *)
(* update arrived.                                                         *)
(***************************************************************************)
MaxUpdates == 4

Texts == {"hello", "more"}
Replies == {"hi there"}

\* The value of calling an `async def` function without awaiting it.
Coroutine == "coroutine"

UserDataEmpty ==
    [conversation_active |-> "absent", current_state |-> "absent", ai_history |-> {},
     ai_model |-> "absent", start_ai_message_id |-> "absent",
     last_ai_response_id |-> "absent", start_keyboard_removed |-> "absent"]

SessionView(conv, user_data, gateway_calls) ==
    [conv |-> conv, user_data |-> user_data, gateway_calls |-> gateway_calls]

SessionIdle ==
    [conv |-> "END", timer |-> FALSE, user_data |-> UserDataEmpty, gateway_calls |-> 0,
     log |-> << >>, before |-> SessionView("END", UserDataEmpty, 0),
     settings_calls |-> 0, settings_before |-> 0]

\* Faulty variant: text messages reach handle_ai_message in every state.
check_update_text_anywhere(conv, kind) ==
    CASE kind = "text" -> "handle_ai_message"
      [] conv = "END" /\ kind = "my_ai_assistant" -> "start_ai_assistant"
      [] conv = "END" /\ kind = "main_menu" -> "return_to_main_menu"
      [] conv = "AI_CONSULTATION" /\ kind = "end_ai_consultation" -> "end_ai_consultation"
      [] conv = "AI_CONSULTATION" /\ kind = "/cancel" -> "cancel"
      [] OTHER -> "none"

\* Faulty variant: a ConversationHandler built with allow_reentry=True.
check_update_allow_reentry(conv, kind) ==
    CASE kind = "my_ai_assistant" -> "start_ai_assistant"
      [] kind = "main_menu" -> "return_to_main_menu"
      [] conv = "AI_CONSULTATION" /\ kind = "text" -> "handle_ai_message"
      [] conv = "AI_CONSULTATION" /\ kind = "end_ai_consultation" -> "end_ai_consultation"
      [] conv = "AI_CONSULTATION" /\ kind = "/cancel" -> "cancel"
      [] OTHER -> "none"

\* ConversationHandler.check_update with the handlers of main.py: entry
\* points are tried when the key has no state, the handlers of the state
\* and the fallbacks when it has one.  "none": no handler takes the update.
check_update(conv, kind) ==
    CASE conv = "END" /\ kind = "my_ai_assistant" -> "start_ai_assistant"
      [] conv = "END" /\ kind = "main_menu" -> "return_to_main_menu"
      [] conv = "AI_CONSULTATION" /\ kind = "text" -> "handle_ai_message"
      [] conv = "AI_CONSULTATION" /\ kind = "end_ai_consultation" -> "end_ai_consultation"
      [] conv = "AI_CONSULTATION" /\ kind = "/cancel" -> "cancel"
      [] OTHER -> "none"

\* What a handler did: the user_data it leaves, the state it returns
\* ("raise" when it raised), what the user got, the gateway calls made and
\* the calls of get_user_settings made (none unless the handler says so).
Handled(ud, ret, out, calls) ==
    [ud |-> ud, ret |-> ret, out |-> out, calls |-> calls, settings |-> 0]

\* ai_handler.py 73-104.  tg_ok = FALSE: query.message.edit_text raises.
start_ai_assistant(ud, tg_ok) ==
    LET ud1 == [ud EXCEPT !.conversation_active = "True",
                          !.current_state = "AI_CONSULTATION",
                          !.ai_history = {<< >>}]
    IN  IF tg_ok
        THEN Handled([ud1 EXCEPT !.start_ai_message_id = "set"], "AI_CONSULTATION", "started", 0)
        ELSE Handled(ud1, "raise", "error", 0)

\* Faulty variant: a reset that leaves the turn history in place.
ResetKeys_keep_history(ud) ==
    [ud EXCEPT !.conversation_active = "False",
               !.start_ai_message_id = "absent", !.last_ai_response_id = "absent",
               !.start_keyboard_removed = "absent", !.ai_model = "absent"]

\* The reset shared by end_ai_consultation (277-288) and ai_error_handler
\* (357-368): current_state is not among the keys it removes.
ResetKeys(ud) ==
    [ud EXCEPT !.conversation_active = "False", !.ai_history = {},
               !.start_ai_message_id = "absent", !.last_ai_response_id = "absent",
               !.start_keyboard_removed = "absent", !.ai_model = "absent"]

\* ai_handler.py 107-246.  settings and response are the values bound at
\* lines 138 and 158/161.  Any exception of the try block reaches the
\* except branch, whose first statement reads update.callback_query.message
\* although the update is a message: the handler raises AttributeError
\* before line 245.
handle_ai_message(ud, text, settings, response) ==
    LET user == [role |-> "user", content |-> text]
        assistant == [role |-> "assistant", content |-> response]
        h == CHOOSE x \in ud.ai_history : TRUE
        ud1 == [ud EXCEPT !.ai_history = {Append(h, user)}]
        fetched(res) == [res EXCEPT !.settings = 1]
    IN  IF ud.current_state # "AI_CONSULTATION"
        THEN Handled(ud, "END", "rejected", 0)
        ELSE IF settings = Coroutine
        THEN fetched(Handled(ud, "raise", "error", 0))
        ELSE IF ud.ai_history = {}
        THEN fetched(Handled(ud, "raise", "error", 0))
        ELSE IF response = Coroutine
        THEN fetched(Handled(ud1, "raise", "error", 0))
        ELSE fetched(Handled([ud1 EXCEPT !.ai_history = {Append(Append(h, user), assistant)},
                                         !.start_keyboard_removed = "True",
                                         !.last_ai_response_id = "set"],
                             "AI_CONSULTATION", "answered", 1))

\* ai_handler.py 249-290.  tg_ok = FALSE: query.answer or reply_text raises
\* before the reset is reached.
end_ai_consultation(ud, tg_ok) ==
    IF tg_ok THEN Handled(ResetKeys(ud), "END", "ended", 0)
    ELSE Handled(ud, "raise", "error", 0)

\* commands/cancel_command.py 25-107: user_data.clear() and END.
cancel(ud) == Handled(UserDataEmpty, "END", "cancelled", 0)

\* handlers/misc_handlers.py 225-242.
return_to_main_menu(ud) ==
    Handled([ud EXCEPT !.conversation_active = "False"], "END", "menu", 0)

\* ai_handler.py 293-370 for an update that has a message or a callback
\* query and an error other than "Message is not modified".
ai_error_handler(ud) == ResetKeys(ud)

Logged(s, kind, text, out) ==
    [s EXCEPT !.log = Append(s.log, [op |-> kind, text |-> text, out |-> out]),
              !.before = SessionView(s.conv, s.user_data, s.gateway_calls),
              !.settings_before = s.settings_calls]

\* Application.process_update for an update a handler of the conversation
\* took: the timeout job is removed, the handler runs; if it returns, the
\* key takes the returned state and the job is scheduled again unless the
\* state is END; if it raises, the state and the missing job stay as they
\* are and the error handler runs.
Dispatch(s, kind, text, res) ==
    LET s1 == Logged(s, kind, text, res.out)
    IN  IF res.ret = "raise"
        THEN [s1 EXCEPT !.timer = FALSE, !.user_data = ai_error_handler(res.ud),
                        !.gateway_calls = s.gateway_calls + res.calls,
                        !.settings_calls = s.settings_calls + res.settings]
        ELSE [s1 EXCEPT !.timer = res.ret # "END", !.conv = res.ret,
                        !.user_data = res.ud,
                        !.gateway_calls = s.gateway_calls + res.calls,
                        !.settings_calls = s.settings_calls + res.settings]

\* One update of kind `kind`: res is what `handler` does with it.
ProcessUpdate(s, kind, text, handler, res) ==
    IF check_update(s.conv, kind) = handler
    THEN Dispatch(s, kind, text, res)
    ELSE Logged(s, kind, text, "ignored")

update_my_ai_assistant(tg_ok) ==
    /\ Len(ss.log) < MaxUpdates
    /\ ss' = ProcessUpdate(ss, "my_ai_assistant", "", "start_ai_assistant",
                           start_ai_assistant(ss.user_data, tg_ok))
    /\ UNCHANGED << users, ticks, call, last, cr, gw, dp, ch >>

\* Line 138 binds get_user_settings(user_id) and line 161
\* generate_gigachat_response(messages) without `await`: both are
\* coroutine objects and neither function body runs.
update_text(text) ==
    /\ Len(ss.log) < MaxUpdates
    /\ ss' = ProcessUpdate(ss, "text", text, "handle_ai_message",
                           handle_ai_message(ss.user_data, text, Coroutine, Coroutine))
    /\ UNCHANGED << users, ticks, call, last, cr, gw, dp, ch >>

update_end_ai_consultation(tg_ok) ==
    /\ Len(ss.log) < MaxUpdates
    /\ ss' = ProcessUpdate(ss, "end_ai_consultation", "", "end_ai_consultation",
                           end_ai_consultation(ss.user_data, tg_ok))
    /\ UNCHANGED << users, ticks, call, last, cr, gw, dp, ch >>

update_cancel ==
    /\ Len(ss.log) < MaxUpdates
    /\ ss' = ProcessUpdate(ss, "/cancel", "", "cancel", cancel(ss.user_data))
    /\ UNCHANGED << users, ticks, call, last, cr, gw, dp, ch >>

update_main_menu ==
    /\ Len(ss.log) < MaxUpdates
    /\ ss' = ProcessUpdate(ss, "main_menu", "", "return_to_main_menu",
                           return_to_main_menu(ss.user_data))
    /\ UNCHANGED << users, ticks, call, last, cr, gw, dp, ch >>

\* conversation_timeout=300 with no handler for ConversationHandler.TIMEOUT
\* (utils/timeout_handler.py is registered nowhere): the job ends the
\* conversation, leaves user_data alone and sends nothing ("none").
conversation_timeout ==
    /\ Len(ss.log) < MaxUpdates
    /\ ss.conv # "END"
    /\ ss.timer
    /\ ss' = [Logged(ss, "timeout", "", "none") EXCEPT !.conv = "END", !.timer = FALSE]
    /\ UNCHANGED << users, ticks, call, last, cr, gw, dp, ch >>

(***************************************************************************)
(* The update loop of the Application built in bot/main.py with            *)
(* concurrent_updates(False): updates of all users wait in one queue, the  *)
(* loop takes the first and awaits its handler before it takes the next.   *)
(* A handler is suspended at each of its awaits; awaits counts the ones it *)
(* still has to pass.  conv[u] is the conversation state of user u.        *)
(***************************************************************************)
MaxReceived == 4

DispatchUsers == {"A", "B"}
UpdateKinds == {"my_ai_assistant", "text", "end_ai_consultation"}

NoHandler == [user |-> "-", kind |-> "-", handler |-> "none", awaits |-> 0]

DispatchIdle ==
    [queue |-> << >>, received |-> 0, running |-> NoHandler,
     conv |-> [u \in DispatchUsers |-> "END"]]

\* The awaits a handler passes before the update is done with:
\* start_ai_assistant 75 and 96; end_ai_consultation 259, 265 and 271;
\* handle_ai_message raises before its first await and ai_error_handler
\* then awaits send_message (346) and, in schedule_message_deletion,
\* asyncio.sleep(5) and delete_message.
Awaits(handler) ==
    CASE handler = "start_ai_assistant" -> 2
      [] handler = "end_ai_consultation" -> 3
      [] handler = "handle_ai_message" -> 3
      [] OTHER -> 0

\* The conversation state the handler leaves; handle_ai_message raises and
\* leaves it as it is.
StateAfter(handler, conv) ==
    CASE handler = "start_ai_assistant" -> "AI_CONSULTATION"
      [] handler = "end_ai_consultation" -> "END"
      [] OTHER -> conv

\* Polling puts an update of user u in the queue.
receive_update(u, kind) ==
    /\ dp.received < MaxReceived
    /\ dp' = [dp EXCEPT !.queue = Append(dp.queue, [user |-> u, kind |-> kind]),
                        !.received = dp.received + 1]
    /\ UNCHANGED << users, ticks, call, last, cr, gw, ss, ch >>

\* The loop takes the next update: only when no handler is being awaited.
\* An update no handler takes is done with at once.
process_update ==
    /\ dp.running.handler = "none"
    /\ dp.queue # << >>
    /\ LET upd == Head(dp.queue)
           h == check_update(dp.conv[upd.user], upd.kind)
       IN  dp' = [dp EXCEPT !.queue = Tail(dp.queue),
                            !.running = IF h = "none" THEN NoHandler
                                        ELSE [user |-> upd.user, kind |-> upd.kind,
                                              handler |-> h, awaits |-> Awaits(h)]]
    /\ UNCHANGED << users, ticks, call, last, cr, gw, ss, ch >>

\* The await the running handler is suspended at returns.
handler_resume ==
    /\ dp.running.handler # "none"
    /\ dp' = IF dp.running.awaits > 1
             THEN [dp EXCEPT !.running.awaits = dp.running.awaits - 1]
             ELSE [dp EXCEPT !.running = NoHandler,
                             !.conv[dp.running.user] =
                                StateAfter(dp.running.handler, dp.conv[dp.running.user])]
    /\ UNCHANGED << users, ticks, call, last, cr, gw, ss, ch >>

CryptoIdle == [pc |-> "idle", input |-> None, enc |-> None, dec |-> None, tampered |-> FALSE]

(***************************************************************************)
(* The splitting of a reply into messages, handle_ai_message lines 194 to  *)
(* 234.  A text is a sequence of characters; positions are counted from 0  *)
(* as in the code, so response[i] of the code is text[i + 1] here.  The    *)
(* limit is MAX_MESSAGE_LENGTH in the code (4096); here it is an input so  *)
(* that texts longer than the limit stay small.                            *)
(***************************************************************************)
MaxText == 5
MaxLimit == 3

Alphabet == {" ", "\n", ".", "a", "b"}

RECURSIVE TextsUpTo(_)
TextsUpTo(n) ==
    IF n = 0 THEN { << >> }
    ELSE LET shorter == TextsUpTo(n - 1)
         IN  shorter \cup { Append(t, c) : t \in { x \in shorter : Len(x) = n - 1 }, c \in Alphabet }

\* response[end - 1] not in [' ', '\n', '.']
Separators == {" ", "\n", "."}

\* response[start] in [' ', '\n']
Skipped == {" ", "\n"}

\* the characters str.strip() removes, among those of Alphabet
Whitespace == {" ", "\n"}

RECURSIVE lstrip(_)
lstrip(s) == IF s # << >> /\ Head(s) \in Whitespace THEN lstrip(Tail(s)) ELSE s

RECURSIVE rstrip(_)
rstrip(s) ==
    IF s # << >> /\ s[Len(s)] \in Whitespace THEN rstrip(SubSeq(s, 1, Len(s) - 1)) ELSE s

strip(s) == rstrip(lstrip(s))

\* response[a:b] for 0 <= a <= b <= len(response)
Slice(text, a, b) == SubSeq(text, a + 1, b)

min(a, b) == IF a <= b THEN a ELSE b

\* while end > start and response[end - 1] not in [' ', '\n', '.']: end -= 1
RECURSIVE Backtrack(_, _, _)
Backtrack(text, pos, end) ==
    IF end > pos /\ text[end] \notin Separators
    THEN Backtrack(text, pos, end - 1)
    ELSE end

\* The end computation without the reset of lines 216-217.
split_end_no_hard_split(text, pos, limit) ==
    LET end == min(pos + limit, Len(text))
    IN  IF end < Len(text) THEN Backtrack(text, pos, end) ELSE end

\* The end computation that stops at the first separator of the window.
split_end_first_separator(text, pos, limit) ==
    LET end == min(pos + limit, Len(text))
        seps == { e \in (pos + 1)..end : text[e] \in Separators }
    IN  IF end < Len(text) /\ seps # {}
        THEN CHOOSE e \in seps : \A f \in seps : e <= f
        ELSE end

\* The end computation that looks one character beyond the window.
split_end_overlong(text, pos, limit) ==
    LET end == min(pos + limit + 1, Len(text))
    IN  IF end < Len(text)
        THEN LET back == Backtrack(text, pos, end)
             IN  IF back = pos THEN pos + limit ELSE back
        ELSE end

\* lines 209-217: the end of the part that begins at start
split_end(text, pos, limit) ==
    LET end == min(pos + limit, Len(text))
    IN  IF end < Len(text)
        THEN LET back == Backtrack(text, pos, end)
             IN  IF back = pos THEN pos + limit ELSE back
        ELSE end

\* The skip that also passes sentence terminators.
skip_separators_after(text, pos) ==
    LET rest == { i \in pos..Len(text) :
                     \A j \in (pos + 1)..i : text[j] \in Separators }
    IN  CHOOSE i \in rest : \A j \in rest : j <= i

\* lines 228-231: start = end; while start < len(response) and response[start] in [' ', '\n']: start += 1
RECURSIVE skip(_, _)
skip(text, pos) ==
    IF pos < Len(text) /\ text[pos + 1] \in Skipped
    THEN skip(text, pos + 1)
    ELSE pos

\* line 221: is_last_part = end >= len(response)
is_last_part(text, end) == end >= Len(text)

\* line 220: if part.strip()
emitted(part) == strip(part) # << >>

\* pc: "idle" | "input" | "loop" | "done".  sent: the texts given to
\* reply_text, in order.  spans: one record per part cut by the loop (and one
\* for the whole text on the single-message path): where it begins, where it
\* ends, and whether it was sent.  iters: iterations of the outer loop.
\* keyboard[i]: message i was sent with reply_markup=exit_keyboard.
ChunkIdle ==
    [ pc |-> "idle", text |-> << >>, limit |-> 1, start |-> 0, path |-> "none",
      sent |-> << >>, spans |-> << >>, iters |-> 0, keyboard |-> << >> ]

InitChunk ==
    /\ users = << BystanderRow >>
    /\ ticks = 0
    /\ call = [c \in Callers |-> IdleCall]
    /\ last = NoEvent
    /\ cr = CryptoIdle
    /\ gw = GatewayIdle
    /\ ss = SessionIdle
    /\ dp = DispatchIdle
    /\ ch \in { [ChunkIdle EXCEPT !.pc = "input", !.text = t, !.limit = L] :
                  t \in TextsUpTo(MaxText), L \in 1..MaxLimit }

\* lines 195-202: the reply fits one message and is sent as it is
reply_whole ==
    /\ ch.pc = "input"
    /\ Len(ch.text) <= ch.limit
    /\ ch' = [ch EXCEPT !.pc = "done", !.path = "single",
                        !.sent = << ch.text >>, !.keyboard = << TRUE >>,
                        !.spans = << [from |-> 0, to |-> Len(ch.text), sent |-> TRUE] >>]
    /\ UNCHANGED << users, ticks, call, last, cr, gw, ss, dp >>

\* lines 203-206: messages = []; start = 0
split_begin ==
    /\ ch.pc = "input"
    /\ Len(ch.text) > ch.limit
    /\ ch' = [ch EXCEPT !.pc = "loop", !.path = "split", !.start = 0]
    /\ UNCHANGED << users, ticks, call, last, cr, gw, ss, dp >>

\* lines 207-231: one iteration of while start < len(response)
split_iteration ==
    /\ ch.pc = "loop"
    /\ ch.start < Len(ch.text)
    /\ LET end  == split_end(ch.text, ch.start, ch.limit)
           part == Slice(ch.text, ch.start, end)
           send == emitted(part)
       IN  ch' = [ch EXCEPT !.sent = IF send THEN Append(ch.sent, part) ELSE ch.sent,
                            !.keyboard = IF send
                                         THEN Append(ch.keyboard, is_last_part(ch.text, end))
                                         ELSE ch.keyboard,
                            !.spans = Append(ch.spans, [from |-> ch.start, to |-> end, sent |-> send]),
                            !.start = skip(ch.text, end),
                            !.iters = ch.iters + 1]
    /\ UNCHANGED << users, ticks, call, last, cr, gw, ss, dp >>

\* line 207: the loop condition is false
split_end_of_text ==
    /\ ch.pc = "loop"
    /\ ch.start >= Len(ch.text)
    /\ ch' = [ch EXCEPT !.pc = "done"]
    /\ UNCHANGED << users, ticks, call, last, cr, gw, ss, dp >>

NextChunk ==
    \/ reply_whole
    \/ split_begin
    \/ split_iteration
    \/ split_end_of_text

SpecChunk == InitChunk /\ [][NextChunk]_vars /\ WF_vars(NextChunk)

Init ==
    /\ users = << BystanderRow >>
    /\ ticks = 0
    /\ call = [c \in Callers |-> IdleCall]
    /\ last = NoEvent
    /\ cr = CryptoIdle
    /\ gw = GatewayIdle
    /\ ss = SessionIdle
    /\ dp = DispatchIdle
    /\ ch = ChunkIdle

Next ==
    \/ \E u \in UserIds : start(u)
    \/ \E u \in UserIds : delete_data(u)
    \/ \E u \in UserIds, resp \in LoginResponses, iv \in IVs, iv2 \in IVs :
          login_password(u, resp, iv, iv2)
    \/ \E c \in Callers, u \in UserIds : get_valid_access_token_begin(c, u)
    \/ \E c \in Callers, resp \in RefreshResponses, iv \in IVs :
          get_valid_access_token_response(c, resp, iv)
    \/ \E c \in Callers : get_valid_access_token_transport_error(c)
    \/ Tick

Spec == Init /\ [][Next]_vars


(***************************************************************************)
(* encrypt_token and decrypt_token on their own: a token (any string up to *)
(* MaxLen characters, or None) is encrypted under some iv, the stored      *)
(* text is possibly altered in one position, and is decrypted.             *)
(***************************************************************************)
CryptoInputs == StringsUpTo(MaxLen) \cup {None}

InitCrypto ==
    /\ users = << BystanderRow >>
    /\ ticks = 0
    /\ call = [c \in Callers |-> IdleCall]
    /\ last = NoEvent
    /\ gw = GatewayIdle
    /\ ss = SessionIdle
    /\ dp = DispatchIdle
    /\ ch = ChunkIdle
    /\ cr \in { [CryptoIdle EXCEPT !.pc = "input", !.input = s] : s \in CryptoInputs }

CryptoEncrypt(iv) ==
    /\ cr.pc = "input"
    /\ cr' = [cr EXCEPT !.pc = "encrypted", !.enc = encrypt_token(cr.input, iv)]
    /\ UNCHANGED << users, ticks, call, last, gw, ss, dp, ch >>

CryptoTamper(i, v) ==
    /\ cr.pc = "encrypted"
    /\ ~cr.tampered
    /\ Truthy(cr.enc) /\ cr.enc # Raised
    /\ i \in DOMAIN cr.enc
    /\ cr.enc[i] # v
    /\ cr' = [cr EXCEPT !.enc[i] = v, !.tampered = TRUE]
    /\ UNCHANGED << users, ticks, call, last, gw, ss, dp, ch >>

CryptoDecrypt ==
    /\ cr.pc = "encrypted"
    /\ cr.enc # Raised
    /\ cr' = [cr EXCEPT !.pc = "decrypted", !.dec = decrypt_token(cr.enc)]
    /\ UNCHANGED << users, ticks, call, last, gw, ss, dp, ch >>

NextCrypto ==
    \/ \E iv \in IVs : CryptoEncrypt(iv)
    \/ \E i \in 1 .. MaxLen + 4, v \in 0 .. FernetVersion : CryptoTamper(i, v)
    \/ CryptoDecrypt

SpecCrypto == InitCrypto /\ [][NextCrypto]_vars


(***************************************************************************)
(* Properties of the token lifecycle (checked under Spec).                 *)
(***************************************************************************)
Record(user_id) == SelectSeq(users, LAMBDA r : r.user_id = user_id)

Cleared(r) ==
    /\ r.api_token_encrypted = None
    /\ r.refresh_token_encrypted = None
    /\ r.token_expires_at = NullTime

\* Seconds left before the record expires, for a record that has an expiry.
SecondsLeft(r) == r.token_expires_at - utcnow(ticks)

Complete(r) == Truthy(r.api_token_encrypted) /\ r.token_expires_at # NullTime

\* A text that Fernet(ENCRYPT_KEY) authenticates, and so one that
\* encrypt_token produced.
IsCiphertext(v) == fernet_decrypt(ENCRYPT_KEY, v) # Raised

InFlight(user_id) == { c \in Callers : call[c].pc = "awaiting" /\ call[c].user_id = user_id }

\* C1: single-flight refresh.  Two calls for the same user that run
\* concurrently and both find the record within 300 s of its expiry issue
\* one outbound refresh call in total: at no time are two refresh calls of
\* one user in flight, the later caller waits for the first.
C1_SingleFlight == \A u \in UserIds : Cardinality(InFlight(u)) <= 1

\* C2: refresh on expiry, success.  A call that finds a complete record
\* with fewer than 300 s left and a refresh token that decrypts issues one
\* refresh call; when the endpoint answers 200 with an access token, the
\* call has issued exactly that one refresh call, returns the new access
\* token, and the record holds an encryption of the new access token with
\* expires_at = now + lifetime (3600 s when the answer names none).
C2_RefreshOnExpirySuccess ==
    /\ (/\ last.op = "begin"
        /\ Len(last.before) = 1
        /\ Complete(last.before[1])
        /\ SecondsLeft(last.before[1]) < RefreshMargin
        /\ Truthy(decrypt_token(last.before[1].refresh_token_encrypted)))
       => (/\ call[last.c].pc = "awaiting"
           /\ call[last.c].ncalls = 1
           /\ call[last.c].refresh_enc = last.before[1].refresh_token_encrypted)
    /\ (/\ last.op = "response"
        /\ last.resp.status = 200
        /\ Truthy(last.resp.access_token))
       => (/\ call[last.c].pc = "done"
           /\ call[last.c].ncalls = 1
           /\ call[last.c].result = last.resp.access_token
           /\ \A i \in DOMAIN Record(last.user_id) :
                LET r == Record(last.user_id)[i]
                IN  /\ r.api_token_encrypted # last.resp.access_token
                    /\ decrypt_token(r.api_token_encrypted) = last.resp.access_token
                    /\ r.token_expires_at =
                         utcnow(ticks) + (IF last.resp.expires_in = Absent
                                          THEN DefaultExpiresIn ELSE last.resp.expires_in))

C2_Witness ==
    /\ last.op = "response"
    /\ last.resp.status = 200
    /\ Truthy(last.resp.access_token)
    /\ last.resp.expires_in # Absent
    /\ ticks > 0
    /\ Len(Record(last.user_id)) = 1

\* C3: refresh on expiry, rejection.  When the refresh endpoint answers a
\* status other than 200, the call clears the record (access token, refresh
\* token and expiry all NULL) and returns None; a call that finds the
\* record cleared returns None without a refresh call.
C3_RefreshRejected ==
    /\ (last.op = "response" /\ last.resp.status # 200)
       => (/\ call[last.c].pc = "done"
           /\ call[last.c].result = None
           /\ \A i \in DOMAIN Record(last.user_id) : Cleared(Record(last.user_id)[i]))
    /\ (/\ last.op = "begin"
        /\ \A i \in DOMAIN last.before : Cleared(last.before[i]))
       => (/\ call[last.c].pc = "done"
           /\ call[last.c].result = None
           /\ call[last.c].ncalls = 0)

C3_Witness ==
    /\ last.op = "begin"
    /\ Len(last.before) = 1
    /\ Cleared(last.before[1])
    /\ \E c \in Callers : c # last.c /\ call[c].pc = "done" /\ call[c].ncalls = 1
                          /\ call[c].result = None

\* C4: refresh idempotence.  For a complete record with more than 300 s
\* left, a call issues no refresh call, leaves the record as it was and
\* returns the decryption of the stored access token.
C4_FreshNoRefresh ==
    (/\ last.op = "begin"
     /\ Len(last.before) = 1
     /\ Complete(last.before[1])
     /\ SecondsLeft(last.before[1]) > RefreshMargin)
    => (/\ call[last.c].pc = "done"
        /\ call[last.c].ncalls = 0
        /\ Record(last.user_id) = last.before
        /\ Truthy(call[last.c].result)
        /\ call[last.c].result \in AccessTokens
        /\ call[last.c].result = decrypt_token(last.before[1].api_token_encrypted))

C4_Witness ==
    /\ last.op = "begin"
    /\ Len(last.before) = 1
    /\ Complete(last.before[1])
    /\ SecondsLeft(last.before[1]) > RefreshMargin
    /\ \E c \in Callers : c # last.c /\ call[c].pc = "done" /\ call[c].ncalls = 0
                          /\ call[c].result = call[last.c].result

\* C5: fail closed.  When the refresh call fails at the transport level the
\* call clears the record and returns None: the failure does not reach the
\* caller and the stale record does not stay.
C5_FailClosed ==
    (last.op = "transport_error")
    => (/\ call[last.c].result = None
        /\ \A i \in DOMAIN Record(last.user_id) : Cleared(Record(last.user_id)[i]))

\* C6: refresh-token rotation.  After a successful refresh the stored
\* refresh token is an encryption of the refresh token of the answer when
\* the answer carries one, and the one stored before when it carries none.
C6_RefreshTokenRotation ==
    (/\ last.op = "response"
     /\ last.resp.status = 200
     /\ Truthy(last.resp.access_token))
    => \A i \in DOMAIN Record(last.user_id) :
          LET r == Record(last.user_id)[i]
          IN  IF Truthy(last.resp.refresh_token)
              THEN decrypt_token(r.refresh_token_encrypted) = last.resp.refresh_token
              ELSE r.refresh_token_encrypted = call[last.c].refresh_enc

\* C7: token-record invariant.  In every reachable state each user has at
\* most one row; a row whose access token is set has its expiry set; a row
\* whose access token is NULL (never logged in, or cleared) has the refresh
\* token and the expiry NULL too.
C7_TokenRecordInvariant ==
    /\ \A i, j \in DOMAIN users : users[i].user_id = users[j].user_id => i = j
    /\ \A i \in DOMAIN users :
          /\ users[i].api_token_encrypted # None => users[i].token_expires_at # NullTime
          /\ users[i].api_token_encrypted = None => Cleared(users[i])

C7_Witness ==
    /\ last.op = "begin"
    /\ last.path = "no_refresh_token"
    /\ Len(Record(last.user_id)) = 1
    /\ Cleared(Record(last.user_id)[1])
    /\ Len(users) = 2

\* C8: ciphertext-only persistence.  Every value of the access-token and
\* refresh-token columns is NULL or a ciphertext made by encrypt_token;
\* no token is stored as issued.
C8_CiphertextOnly ==
    \A i \in DOMAIN users :
       /\ users[i].api_token_encrypted = None
            \/ (/\ IsCiphertext(users[i].api_token_encrypted)
                /\ users[i].api_token_encrypted \notin AccessTokens \cup RefreshTokens)
       /\ users[i].refresh_token_encrypted = None
            \/ (/\ IsCiphertext(users[i].refresh_token_encrypted)
                /\ users[i].refresh_token_encrypted \notin AccessTokens \cup RefreshTokens)

C8_Witness ==
    /\ last.op = "response"
    /\ last.resp.status = 200
    /\ \E i \in DOMAIN users :
          /\ users[i].user_id = last.user_id
          /\ decrypt_token(users[i].api_token_encrypted) = last.resp.access_token
          /\ Truthy(users[i].refresh_token_encrypted)

(***************************************************************************)
(* Properties of encrypt_token and decrypt_token (checked under SpecCrypto)*)
(***************************************************************************)
Encodable(s) == \A i \in DOMAIN s : s[i] # Surrogate

\* C9 as stated: for all strings s, decrypt_token(encrypt_token(s)) = s,
\* and encrypt_token of an empty or absent value is None.
C9_RoundTripAllStrings ==
    /\ (cr.pc = "decrypted" /\ ~cr.tampered /\ cr.input # None) => cr.dec = cr.input
    /\ (cr.pc # "input" /\ ~cr.tampered /\ ~Truthy(cr.input)) => cr.enc = None

\* C9 as amended: for every non-empty string s without a lone surrogate,
\* encrypt_token(s) is a ciphertext other than s and
\* decrypt_token(encrypt_token(s)) = s; encrypt_token of an empty or absent
\* value is None, and decrypt_token of that None is None, not "".
C9_RoundTripNonEmpty ==
    /\ (cr.pc # "input" /\ ~cr.tampered /\ Truthy(cr.input) /\ Encodable(cr.input))
       => (cr.enc # Raised /\ cr.enc # None /\ cr.enc # cr.input)
    /\ (cr.pc = "decrypted" /\ ~cr.tampered /\ Truthy(cr.input)) => cr.dec = cr.input
    /\ (cr.pc # "input" /\ ~cr.tampered /\ ~Truthy(cr.input)) => cr.enc = None
    /\ (cr.pc = "decrypted" /\ ~cr.tampered /\ ~Truthy(cr.input)) => cr.dec = None

C9_Witness ==
    /\ cr.pc = "decrypted"
    /\ ~cr.tampered
    /\ Truthy(cr.input)
    /\ Len(cr.input) = MaxLen
    /\ \E i \in DOMAIN cr.input : cr.input[i] = NonAscii
    /\ cr.dec = cr.input


(***************************************************************************)
(* The gateway on its own: one generate_gigachat_response call at a time,  *)
(* with any number of retries up to MaxRetries.                            *)
(***************************************************************************)
NextGateway ==
    \/ \E g \in SoloGateways, retries \in 0 .. MaxRetries, ok \in BOOLEAN :
          generate_gigachat_response_call(g, retries, ok)
    \/ \E g \in SoloGateways, outcome \in Outcomes, ok \in BOOLEAN :
          generate_gigachat_response_answer(g, outcome, ok)
    \/ \E g \in SoloGateways : generate_gigachat_response_wake(g)

SpecGateway == Init /\ [][NextGateway]_vars

RECURSIVE AllAre(_, _)
AllAre(s, x) == s = << >> \/ (Head(s) = x /\ AllAre(Tail(s), x))

\* C10: gateway retry bound.  A generate_gigachat_response call makes at
\* most `retries` chat-completion calls, one per answer received; when the
\* first k answers (k < retries) are 500 and answer k+1 is 200, the call
\* returns the payload of that 200 after exactly k+1 calls.
C10_RetryBound ==
    \A g \in Gateways :
       LET st == gw.g[g]
       IN  /\ st.calls <= st.retries
           /\ st.calls = Len(st.hist) + (IF st.pc = "posting" THEN 1 ELSE 0)
           /\ (/\ st.hist # << >>
               /\ st.hist[Len(st.hist)] = "200"
               /\ AllAre(SubSeq(st.hist, 1, Len(st.hist) - 1), "500"))
              => (/\ st.pc = "done"
                  /\ st.result = "payload"
                  /\ st.calls = Len(st.hist)
                  /\ st.sleeps = Len(st.hist) - 1)
           /\ (st.pc = "done" /\ st.result = "payload")
              => (st.hist # << >> /\ st.hist[Len(st.hist)] = "200")

C10_Witness ==
    \E g \in Gateways :
       /\ gw.g[g].pc = "done"
       /\ gw.g[g].retries = 3
       /\ gw.g[g].hist = << "500", "500", "200" >>
       /\ gw.g[g].calls = 3

\* The attempts of call st that were answered with one of `outcomes`.
Answered(st, outcomes) == {i \in 1 .. Len(st.hist) : st.hist[i] \in outcomes}

\* C11: 401 handling.  When attempt i is answered 401 and attempt i+1 is
\* answered 200, the credential was reacquired after the 401, no sleep
\* separates the two attempts, attempt i+1 carries another credential than
\* attempt i, and the call returns the payload after i+1 calls.
C11_Reacquire401 ==
    \A g \in Gateways :
       LET st == gw.g[g]
       IN  \A i \in Answered(st, {"401"}) :
              (i < Len(st.hist) /\ st.hist[i + 1] = "200")
              => (/\ st.acq[i] = "ok"
                  /\ st.naps[i] = 0
                  /\ st.sent[i + 1] # st.sent[i]
                  /\ st.result = "payload"
                  /\ st.calls = i + 1)

\* C12: 5xx policy.  Every attempt answered with a 5xx status is followed
\* by a sleep when it is not the last attempt, and ends the call with the
\* 'server error, try later' message when it is the last.
C12_Policy5xx ==
    \A g \in Gateways :
       LET st == gw.g[g]
       IN  \A i \in Answered(st, {"500", "503"}) :
              IF i < st.retries
              THEN st.naps[i] = 1
              ELSE st.pc = "done" /\ st.result = "server_error"

\* C13: non-retryable statuses.  An attempt answered 404 or 429 is the last
\* of its call: the call is over with the status message, and no call, no
\* sleep and no OAuth exchange follows the answer.
C13_NonRetryable ==
    \A g \in Gateways :
       LET st == gw.g[g]
       IN  \A i \in Answered(st, {"404", "429"}) :
              /\ i = Len(st.hist)
              /\ st.pc = "done"
              /\ st.result = "status_error"
              /\ st.calls = i
              /\ st.naps[i] = 0
              /\ st.acq[i] = "none"

C13_Witness ==
    \E g \in Gateways :
       /\ gw.g[g].retries = 3
       /\ gw.g[g].hist = << "500", "429" >>
       /\ gw.g[g].pc = "done"
       /\ gw.g[g].sleeps = 1

C16_Totality == \A g \in Gateways : gw.g[g].result # "raised"

\* C17: a revoked credential is never reused.  No attempt in flight carries
\* a credential that an earlier attempt had answered with 401.
C17_RevokedNeverReused ==
    \A g \in Gateways :
       gw.g[g].pc = "posting" => gw.g[g].sent[gw.g[g].calls] \notin gw.revoked


(***************************************************************************)
(* Several generate_gigachat_response coroutines on one event loop.  Each  *)
(* runs from one await to the next without interruption; while one is      *)
(* suspended in client.post or asyncio.sleep the others run.  They share   *)
(* GIGACHAT_AUTH_TOKEN.                                                    *)
(***************************************************************************)
ConcurrentOutcomes == {"200", "401", "500"}
ConcurrentRetries == {1, 2}

NextGatewayConcurrent ==
    \/ \E g \in Gateways, retries \in ConcurrentRetries, ok \in BOOLEAN :
          generate_gigachat_response_call(g, retries, ok)
    \/ \E g \in Gateways, outcome \in ConcurrentOutcomes, ok \in BOOLEAN :
          generate_gigachat_response_answer(g, outcome, ok)
    \/ \E g \in Gateways : generate_gigachat_response_wake(g)

SpecGatewayConcurrent == Init /\ [][NextGatewayConcurrent]_vars

\* C18: single-flight reacquisition.  For one revoked credential at most
\* one OAuth exchange is made: no credential is the cause of two
\* reacquisitions, whichever calls received the 401.
C18_SingleFlightReacquire ==
    \A i, j \in DOMAIN gw.reacq : gw.reacq[i] = gw.reacq[j] => i = j


(***************************************************************************)
(* The consultation session on its own.                                    *)
(***************************************************************************)
NextSession ==
    \/ \E tg_ok \in BOOLEAN : update_my_ai_assistant(tg_ok)
    \/ \E text \in Texts : update_text(text)
    \/ \E tg_ok \in BOOLEAN : update_end_ai_consultation(tg_ok)
    \/ update_cancel
    \/ update_main_menu
    \/ conversation_timeout

SpecSession == Init /\ [][NextSession]_vars

\* The session is Active when the conversation is in AI_CONSULTATION and
\* user_data marks it active; every other state is Idle.
Active(conv, ud) == conv = "AI_CONSULTATION" /\ ud.conversation_active = "True"

\* The update got no answer of the assistant: no handler took it, or the
\* state check of handle_ai_message refused it, or the handler failed.
Refused(out) == out \in {"ignored", "rejected", "error"}

Ops(log) == [i \in DOMAIN log |-> log[i].op]

SystemTurn == [role |-> "system", content |-> "system_prompt"]
Turns(ud) == {<< SystemTurn >> \o h : h \in ud.ai_history}

\* C20: turn history.  After a start and n text messages the session is
\* Active and its turns are the system turn followed, for each message in
\* arrival order, by the user turn with its text and an assistant turn with
\* the gateway's reply.
C20_TurnHistory ==
    LET n == Len(ss.log) - 1
    IN  (/\ n >= 0
         /\ ss.log[1].op = "my_ai_assistant"
         /\ ss.log[1].out = "started"
         /\ \A i \in 2 .. n + 1 : ss.log[i].op = "text")
        => (/\ Active(ss.conv, ss.user_data)
            /\ \E t \in Turns(ss.user_data) :
                  /\ Len(t) = 1 + 2 * n
                  /\ t[1] = SystemTurn
                  /\ \A k \in 1 .. n :
                        /\ t[2 * k] = [role |-> "user", content |-> ss.log[k + 1].text]
                        /\ t[2 * k + 1].role = "assistant"
                        /\ t[2 * k + 1].content \in Replies)

C22_FaultResets ==
    LET n == Len(ss.log)
    IN  (n > 0 /\ ss.log[n].op = "text" /\ ss.log[n].out = "error"
         /\ Active(ss.before.conv, ss.before.user_data))
        => (/\ ss.user_data.conversation_active = "False"
            /\ ss.user_data.ai_history = {}
            /\ ss.conv = "END"
            /\ check_update(ss.conv, "my_ai_assistant") = "start_ai_assistant"
            /\ check_update(ss.conv, "text") = "none")

\* C23: timeout.  When the conversation timeout fires in an Active session,
\* the session is marked not active, its turns are cleared and a timeout
\* notice is sent.
C23_TimeoutResets ==
    LET n == Len(ss.log)
    IN  (n > 0 /\ ss.log[n].op = "timeout" /\ Active(ss.before.conv, ss.before.user_data))
        => (/\ ss.conv = "END"
            /\ ss.user_data.conversation_active = "False"
            /\ ss.user_data.ai_history = {}
            /\ ss.log[n].out = "timeout_notice")


(***************************************************************************)
(* The update loop on its own, with two users.                             *)
(***************************************************************************)
NextDispatch ==
    \/ \E u \in DispatchUsers, kind \in UpdateKinds : receive_update(u, kind)
    \/ process_update
    \/ handler_resume

SpecDispatch == Init /\ [][NextDispatch]_vars

\* C25: sessions do not block each other.  While the handler of a message
\* of one user is suspended, the update of another user at the head of the
\* queue can be taken by the loop.
C25_NoCrossBlocking ==
    (/\ dp.running.handler = "handle_ai_message"
     /\ dp.queue # << >>
     /\ Head(dp.queue).user # dp.running.user)
    => ENABLED process_update


(***************************************************************************)
(* Claims about the splitting of a reply (SpecChunk).                      *)
(***************************************************************************)

\* C26: whatever the text and the limit (at least 1), every message sent
\* for the text is at most limit characters long.
C26_SizeBound ==
    \A i \in 1..Len(ch.sent) : Len(ch.sent[i]) <= ch.limit

\* A text longer than the limit was split into several messages, one of
\* them exactly limit characters long.
C26_Witness ==
    /\ ch.pc = "done"
    /\ ch.path = "split"
    /\ Len(ch.sent) >= 2
    /\ \E i \in 1..Len(ch.sent) : Len(ch.sent[i]) = ch.limit

RECURSIVE Concat(_)
Concat(parts) == IF parts = << >> THEN << >> ELSE Head(parts) \o Concat(Tail(parts))

RECURSIVE WithoutWhitespace(_)
WithoutWhitespace(s) ==
    IF s = << >> THEN << >>
    ELSE IF Head(s) \in Whitespace THEN WithoutWhitespace(Tail(s))
         ELSE << Head(s) >> \o WithoutWhitespace(Tail(s))

\* The positions (from 1) of the text that lie in a part that was sent.
Kept(c) ==
    { p \in 1..Len(c.text) :
        \E i \in 1..Len(c.spans) :
            c.spans[i].sent /\ c.spans[i].from < p /\ p <= c.spans[i].to }

Dropped(c) == (1..Len(c.text)) \ Kept(c)

\* The places inside the text where a part ended.
Cuts(c) == { c.spans[i].to : i \in 1..Len(c.spans) } \ {Len(c.text)}

\* The characters of the text at the kept positions, in the order of the text.
RECURSIVE KeptText(_, _)
KeptText(c, p) ==
    IF p > Len(c.text) THEN << >>
    ELSE (IF p \in Kept(c) THEN << c.text[p] >> ELSE << >>) \o KeptText(c, p + 1)

\* C27: once a text is chunked, the messages sent, joined in order, are the
\* text without the characters that were dropped; the non-whitespace
\* characters of the messages are those of the text, in order, each once;
\* every dropped character is a space or a newline, in a run of dropped
\* characters that begins or ends where a part was cut.
C27_RoundTrip ==
    ch.pc = "done" =>
        /\ Concat(ch.sent) = KeptText(ch, 1)
        /\ WithoutWhitespace(Concat(ch.sent)) = WithoutWhitespace(ch.text)
        /\ \A p \in Dropped(ch) :
              /\ ch.text[p] \in Whitespace
              /\ \E cut \in Cuts(ch) :
                    \/ cut < p /\ (cut + 1)..p \subseteq Dropped(ch)
                    \/ cut >= p /\ p..cut \subseteq Dropped(ch)

\* A text with both letters was split into several messages and lost
\* whitespace both before and after a cut.
C27_Witness ==
    /\ ch.pc = "done"
    /\ Len(ch.sent) >= 2
    /\ "a" \in { ch.text[p] : p \in 1..Len(ch.text) }
    /\ "b" \in { ch.text[p] : p \in 1..Len(ch.text) }
    /\ \E p \in Dropped(ch), cut \in Cuts(ch) : cut < p
    /\ \E p \in Dropped(ch), cut \in Cuts(ch) : cut >= p

\* The ends a part beginning at from may take so that its last character is
\* a space, a newline or a full stop within limit characters.
Boundaries(c, from) ==
    { e \in (from + 1)..(from + c.limit) : e <= Len(c.text) /\ c.text[e] \in Separators }

\* The part ends inside the text: a split was made there.
IsSplit(c, sp) == sp.to < Len(c.text)

\* A word is cut at e: the characters on both sides of e are letters.
SplitsWord(c, e) ==
    /\ 0 < e /\ e < Len(c.text)
    /\ c.text[e] \notin Separators
    /\ c.text[e + 1] \notin Separators

\* C28: every split is made after the last space, newline or full stop found
\* in the limit characters that follow the start of the part; it is made at
\* exactly limit characters only when those characters hold none of the
\* three; no word is cut when they hold one.
C28_BoundaryPreference ==
    \A i \in 1..Len(ch.spans) :
        LET sp == ch.spans[i]
            bs == Boundaries(ch, sp.from)
        IN  IsSplit(ch, sp) =>
               /\ bs # {} => sp.to \in bs /\ \A e \in bs : e <= sp.to
               /\ bs # {} => ~SplitsWord(ch, sp.to)
               /\ bs = {} => sp.to = sp.from + ch.limit
               /\ sp.to = sp.from + ch.limit => (bs = {} \/ sp.to \in bs)

\* One text was split once after a separator found by going back from the
\* end of the window, and once at exactly limit characters for want of one.
C28_Witness ==
    /\ ch.pc = "done"
    /\ \E i \in 1..Len(ch.spans) :
          /\ IsSplit(ch, ch.spans[i])
          /\ Boundaries(ch, ch.spans[i].from) # {}
          /\ ch.spans[i].to < ch.spans[i].from + ch.limit
    /\ \E i \in 1..Len(ch.spans) :
          /\ IsSplit(ch, ch.spans[i])
          /\ Boundaries(ch, ch.spans[i].from) = {}
          /\ SplitsWord(ch, ch.spans[i].to)

\* C29: once a text is chunked, the empty text has produced no message, a
\* text no longer than the limit that is not blank has produced exactly one
\* message, the text itself, and no message sent is blank (empty once its
\* whitespace is trimmed), whatever the length of the text.
C29_DegenerateInputs ==
    ch.pc = "done" =>
        /\ ch.text = << >> => ch.sent = << >>
        /\ (Len(ch.text) <= ch.limit /\ strip(ch.text) # << >>) => ch.sent = << ch.text >>
        /\ \A i \in 1..Len(ch.sent) : strip(ch.sent[i]) # << >>

\* C30: whatever the text and the limit (at least 1), the chunking comes to
\* its end; every iteration of the loop moves the scan position strictly
\* forward and never beyond the end of the text, and every part cut by the
\* loop is not empty and ends within the text.
C30_Totality ==
    /\ <>(ch.pc = "done")
    /\ [][ /\ ch.pc = "loop" /\ ch'.iters > ch.iters =>
                ch.start < ch'.start /\ ch'.start <= Len(ch.text)
           /\ ch'.path = "split" =>
                \A i \in 1..Len(ch'.spans) :
                   ch'.spans[i].from < ch'.spans[i].to /\ ch'.spans[i].to <= Len(ch.text) ]_vars

\* A text was chunked in at least three iterations, the last of which
\* stopped exactly at the end of the text.
C30_Witness ==
    /\ ch.pc = "done"
    /\ ch.iters >= 3
    /\ ch.start = Len(ch.text)


(***************************************************************************)
(* Further properties of the token lifecycle (checked under Spec).         *)
(***************************************************************************)

\* C31: a call that finds a complete record with exactly 300 s left, and a
\* refresh token that decrypts, takes the refresh path (one refresh call is
\* issued); a call returns the stored access token without a refresh only
\* for a record with strictly more than 300 s left.
C31_MarginBoundary ==
    /\ (/\ last.op = "begin"
        /\ Len(last.before) = 1
        /\ Complete(last.before[1])
        /\ SecondsLeft(last.before[1]) = RefreshMargin
        /\ Truthy(decrypt_token(last.before[1].refresh_token_encrypted)))
       => (/\ last.path = "refresh"
           /\ call[last.c].pc = "awaiting"
           /\ call[last.c].ncalls = 1)
    /\ (/\ last.op = "begin"
        /\ last.path = "fresh")
       => (/\ Len(last.before) = 1
           /\ SecondsLeft(last.before[1]) > RefreshMargin)


(***************************************************************************)
(* Further properties of the gateway (checked under SpecGateway).          *)
(***************************************************************************)

\* The RqUIDs of the outbound calls made for call st: the chat-completion
\* attempts, then the OAuth exchanges.
OutboundRqUIDs(st) == st.rq \o st.orq

\* C32: every outbound call of a generate_gigachat_response call (each
\* chat-completion attempt, retries included, and each OAuth exchange)
\* carries an RqUID that no other outbound call carries.
C32_FreshRqUID ==
    \A g \in Gateways :
       LET ids == OutboundRqUIDs(gw.g[g])
       IN  \A i, j \in 1 .. Len(ids) : ids[i] = ids[j] => i = j


(***************************************************************************)
(* Further properties of the consultation (checked under SpecSession).     *)
(***************************************************************************)

\* C33: the profile is fetched exactly once per session, at its start: the
\* update that starts a session makes one call of get_user_settings, and a
\* text message that reaches the message handler makes none, so that the
\* system turn of the session is built from the profile as it was at start.
C33_ProfileSnapshot ==
    LET n == Len(ss.log)
    IN  /\ (n > 0 /\ ss.log[n].op = "my_ai_assistant" /\ ss.log[n].out = "started")
           => ss.settings_calls = ss.settings_before + 1
        /\ (n > 0 /\ ss.log[n].op = "text" /\ ss.log[n].out # "ignored")
           => ss.settings_calls = ss.settings_before

\* C34: a start in an Active session has no effect.  When the start button
\* is pressed while the session is Active, no handler takes the update:
\* user_data (turn history, provider selection, activity mark), the
\* conversation state and its timeout job stay as they were, and neither
\* the gateway nor get_user_settings is called.
C34_StartWhileActive ==
    LET n == Len(ss.log)
    IN  (n > 0 /\ ss.log[n].op = "my_ai_assistant"
               /\ Active(ss.before.conv, ss.before.user_data))
        => (/\ ss.log[n].out = "ignored"
            /\ ss.user_data = ss.before.user_data
            /\ ss.conv = ss.before.conv
            /\ Active(ss.conv, ss.user_data)
            /\ ss.gateway_calls = ss.before.gateway_calls
            /\ ss.settings_calls = ss.settings_before)

\* The start button was pressed twice in a row: the first press started the
\* session, the second found it Active.
C34_Witness ==
    /\ Len(ss.log) = 2
    /\ ss.log[1].op = "my_ai_assistant"
    /\ ss.log[1].out = "started"
    /\ ss.log[2].op = "my_ai_assistant"
    /\ ss.log[2].out = "ignored"
    /\ Active(ss.before.conv, ss.before.user_data)
    /\ ss.timer


(***************************************************************************)
(* A further property of the gateway (checked under SpecGateway).          *)
(***************************************************************************)

\* Line 217: return f"Ошибка: {str(e)}", the text of the exception caught.
CarriesExceptionText(result) == result = "exception_text"

\* The call ended by returning a message about a failure.
ReturnedFailure(st) ==
    st.pc = "done" /\ st.result \in {"exception_text", "server_error", "status_error", "exhausted"}

\* C35: no string that generate_gigachat_response returns for a failed
\* call carries the text of an exception.
C35_NoRawExceptionText ==
    \A g \in Gateways :
       ReturnedFailure(gw.g[g]) => ~CarriesExceptionText(gw.g[g].result)


(***************************************************************************)
(* Two calls of get_valid_access_token for one user, each made once, with  *)
(* a refresh endpoint that accepts a refresh token once: the first refresh *)
(* call sent with a token may be answered in any way, every later one with *)
(* the same token is answered 400 or 401.  The record is the one a login   *)
(* stored at time 0; the calls are made at any later time.  raced says     *)
(* that the refresh call of the call was in flight together with the       *)
(* other's, use is the rank of its use of the refresh token, path is what  *)
(* the call did with the answer.                                           *)
(***************************************************************************)
RaceUser == 1

RaceCallIdle ==
    [pc |-> "idle", user_id |-> 0, refresh_enc |-> None, result |-> Pending, ncalls |-> 0,
     raced |-> FALSE, use |-> 0, path |-> "-"]

InitRefreshRace ==
    /\ users \in { LoginSave(<< BystanderRow, NewRow(RaceUser) >>, RaceUser, resp, 0, 0, 0) :
                     resp \in LoginResponses }
    /\ ticks \in 0 .. MaxTicks
    /\ call = [c \in Callers |-> RaceCallIdle]
    /\ last = NoEvent
    /\ cr = CryptoIdle
    /\ gw = GatewayIdle
    /\ ss = SessionIdle
    /\ dp = DispatchIdle
    /\ ch = ChunkIdle

\* The other calls whose refresh call is in flight.
InFlightOthers(c) == { d \in Callers \ {c} : call[d].pc = "awaiting" }

\* The refresh calls already sent with the refresh token stored as renc.
EarlierUses(c, renc) ==
    { d \in Callers \ {c} :
         call[d].ncalls = 1 /\ decrypt_token(call[d].refresh_enc) = decrypt_token(renc) }

\* Lines 36-60 and 74-78 for a caller that has not called yet.
refresh_race_begin(c) ==
    LET out == BeginOutcome(users, RaceUser, ticks)
        renc == get_api_tokens(users, RaceUser).refresh_enc
    IN  /\ call[c].pc = "idle"
        /\ users' = IF out.clear THEN clear_api_tokens(users, RaceUser) ELSE users
        /\ call' = [d \in Callers |->
                      IF d = c
                      THEN [pc |-> IF out.send THEN "awaiting" ELSE "done",
                            user_id |-> RaceUser,
                            refresh_enc |-> IF out.send THEN renc ELSE None,
                            result |-> out.result,
                            ncalls |-> IF out.send THEN 1 ELSE 0,
                            raced |-> out.send /\ InFlightOthers(c) # {},
                            use |-> IF out.send THEN Cardinality(EarlierUses(c, renc)) + 1
                                    ELSE 0,
                            path |-> out.path]
                      ELSE IF out.send /\ d \in InFlightOthers(c)
                           THEN [call[d] EXCEPT !.raced = TRUE]
                           ELSE call[d]]
        /\ UNCHANGED << ticks, last, cr, gw, ss, dp, ch >>

\* Lines 61-73, with the answer the endpoint gives to this use of the token.
refresh_race_response(c, resp, iv) ==
    LET out == ResponseOutcome(users, RaceUser, call[c].refresh_enc, resp, ticks, iv)
    IN  /\ call[c].pc = "awaiting"
        /\ call[c].use > 1 => resp.status \in {400, 401}
        /\ users' = out.users
        /\ call' = [call EXCEPT ![c].pc = "done", ![c].result = out.result,
                                ![c].path = out.path]
        /\ UNCHANGED << ticks, last, cr, gw, ss, dp, ch >>

\* `await api_refresh(refresh)` raises: the call ends with the exception.
refresh_race_transport_error(c) ==
    /\ call[c].pc = "awaiting"
    /\ call' = [call EXCEPT ![c].pc = "done", ![c].result = Raised, ![c].path = "raised"]
    /\ UNCHANGED << users, ticks, last, cr, gw, ss, dp, ch >>

NextRefreshRace ==
    \/ \E c \in Callers : refresh_race_begin(c)
    \/ \E c \in Callers, resp \in RefreshResponses, iv \in IVs :
          refresh_race_response(c, resp, iv)
    \/ \E c \in Callers : refresh_race_transport_error(c)

SpecRefreshRace == InitRefreshRace /\ [][NextRefreshRace]_vars

\* C36: two calls for one user whose refresh calls were in flight together
\* do not corrupt the record.  Once both calls are finished, if one of them
\* refreshed successfully, the user's record is not cleared and holds an
\* encryption of the access token that call obtained.
C36_RaceKeepsRecord ==
    \A w \in Callers :
       (/\ \A c \in Callers : call[c].pc = "done" /\ call[c].raced
        /\ call[w].path = "refreshed")
       => (/\ Len(Record(RaceUser)) = 1
           /\ ~Cleared(Record(RaceUser)[1])
           /\ decrypt_token(Record(RaceUser)[1].api_token_encrypted) = call[w].result)


(***************************************************************************)
(* The token store on its own (bot/utils/db_utils.py): save_api_tokens,    *)
(* get_api_tokens and clear_api_tokens called for a user who has a row in  *)
(* the users table (after /start) or has none.  last keeps the call made:  *)
(* for a save, resp holds the ciphertexts and the lifetime given to it.    *)
(***************************************************************************)
StoreUsers == {1, 2}

StoredAccess == { encrypt_token(a, iv) : a \in AccessTokens, iv \in IVs }

StoredRefresh == {None} \cup { encrypt_token(r, iv) : r \in RefreshTokens, iv \in IVs }

\* /start of a user who has no row yet.
store_start(user_id) ==
    /\ start_insert(user_id)
    /\ last' = [NoEvent EXCEPT !.op = "start", !.user_id = user_id]
    /\ UNCHANGED << ticks, call, cr, gw, ss, dp, ch >>

store_save(user_id, access_encrypted, refresh_encrypted, expires_in) ==
    /\ users' = save_api_tokens(users, user_id, access_encrypted, refresh_encrypted,
                                expires_in, ticks)
    /\ last' = [NoEvent EXCEPT !.op = "save", !.user_id = user_id,
                               !.resp = [status |-> 0, access_token |-> access_encrypted,
                                         refresh_token |-> refresh_encrypted,
                                         expires_in |-> expires_in]]
    /\ UNCHANGED << ticks, call, cr, gw, ss, dp, ch >>

store_clear(user_id) ==
    /\ users' = clear_api_tokens(users, user_id)
    /\ last' = [NoEvent EXCEPT !.op = "clear", !.user_id = user_id]
    /\ UNCHANGED << ticks, call, cr, gw, ss, dp, ch >>

NextStore ==
    \/ \E u \in StoreUsers : store_start(u)
    \/ \E u \in StoreUsers, a \in StoredAccess, r \in StoredRefresh,
          e \in Lifetimes \cup {DefaultExpiresIn} : store_save(u, a, r, e)
    \/ \E u \in StoreUsers : store_clear(u)
    \/ Tick

SpecStore == Init /\ [][NextStore]_vars

\* C37: for every user id, with or without a row beforehand, once
\* save_api_tokens has returned get_api_tokens gives the access ciphertext,
\* the refresh ciphertext and the expiry now + lifetime that were saved; and
\* once clear_api_tokens has returned get_api_tokens gives nothing.
C37_StoreRoundTrip ==
    /\ last.op = "save"
       => get_api_tokens(users, last.user_id) =
             [found |-> TRUE, access_enc |-> last.resp.access_token,
              refresh_enc |-> last.resp.refresh_token,
              expires_at |-> utcnow(ticks) + last.resp.expires_in]
    /\ last.op = "clear" => ~get_api_tokens(users, last.user_id).found


(***************************************************************************)
(* A further property of the splitting of a reply (checked under SpecChunk)*)
(***************************************************************************)

\* Lines 201 and 232-233: context.user_data['last_ai_response_id'], as the
\* rank of the message it names among those sent (0 when it is not set).
last_ai_response_id(c) == Len(c.sent)

\* C38: whenever a reply was delivered in several messages, exactly one of
\* them carries the end-consultation keyboard, it is the last one sent, and
\* last_ai_response_id names it; also for a text that ends in whitespace.
C38_KeyboardOnLast ==
    (ch.pc = "done" /\ Len(ch.sent) >= 2)
    => (/\ { i \in 1 .. Len(ch.sent) : ch.keyboard[i] } = { Len(ch.sent) }
        /\ last_ai_response_id(ch) = Len(ch.sent))


(***************************************************************************)
(* A further property of the consultation (checked under SpecSession).     *)
(***************************************************************************)

\* C40: a degraded reply keeps the session alive.  A text message handled
\* in an Active session, whatever the gateway returns for it (an error
\* message included), leaves the session Active with the user turn and an
\* assistant turn appended to the history, and the next text message is
\* taken by the message handler.
C40_DegradedReplyKeepsSession ==
    LET n == Len(ss.log)
    IN  (n > 0 /\ ss.log[n].op = "text" /\ Active(ss.before.conv, ss.before.user_data))
        => (/\ Active(ss.conv, ss.user_data)
            /\ check_update(ss.conv, "text") = "handle_ai_message"
            /\ \E h \in ss.before.user_data.ai_history, h2 \in ss.user_data.ai_history :
                  /\ Len(h2) = Len(h) + 2
                  /\ SubSeq(h2, 1, Len(h)) = h
                  /\ h2[Len(h) + 1] = [role |-> "user", content |-> ss.log[n].text]
                  /\ h2[Len(h) + 2].role = "assistant")

====
